---------------------------- MODULE Spec2Model ----------------------------
(***************************************************************************)
(* tk-sketchbook: the SketchBook engine of the Shotgun Pipeline Toolkit.   *)
(*                                                                         *)
(* The module models                                                       *)
(*   - SketchBookOperations (python/tk_sketchbook/operations.py): every    *)
(*     operation is one action; the native requests, hook notifications,   *)
(*     engine signals and dialogs it issues are recorded, in order, in the *)
(*     trace of its result;                                                *)
(*   - SketchBookMenu and the engine's menu refresh (menu.py, engine.py);  *)
(*   - the launcher and post_app_init / _run_app_instance_commands;        *)
(*   - scan_software / _is_supported / _map_version_year (startup.py);     *)
(*   - the workfiles scene operation hook and the panel actions hook.      *)
(*                                                                         *)
(* The native host, the framework's hooks, the dialogs' users and the      *)
(* registered callbacks are the environment: their replies are             *)
(* nondeterministic inputs of the actions.                                 *)
(***************************************************************************)
EXTENDS Integers, Sequences, FiniteSets, TLC

VARIABLES
    \* ---- the environment of SketchBookOperations
    aliasApiBound,      \* operations.py reads the name alias_api, which it never imports or defines
    stageSelectedBound, \* operations.py calls engine.stage_selected, which engine.py does not define
    hostPath,           \* the host's current file path ("" when the scene is unsaved)
    hostStages,         \* the host's number of stages
    \* ---- the last SketchBookOperations invocation
    opName,             \* the operation invoked ("" before the first)
    opIn,               \* its arguments and the environment's replies
    opRes,              \* its result: trace, outcome, error text, return value
    \* ---- the engine and its menu
    commands,           \* engine.commands: the command registry, in insertion order
    context,            \* engine.context
    menuSet,            \* engine.menu has been created
    refreshCalls,       \* number of sketchbook_api.refresh_menu calls so far
    nativeMenu,         \* the menu item list handed over by the last of them
    menuDirty,          \* the registry or the context changed since that call
    refreshedStale,     \* some refresh followed such a change
    \* ---- the launch of the engine
    operationsBound,    \* engine.py reads self.operations, which it never sets
    runAtStartup,       \* the 'run_at_startup' setting
    fileToOpen,         \* the file_to_open argument of the last prepare_launch
    launchEnv,          \* the launch environment prepare_launch returned
    phase,              \* "off", "launched" (the host runs, the engine starts), "running"
    initRes,            \* the result of post_app_init
    \* ---- SketchBookLauncher.scan_software
    platform,           \* "linux", "windows" or "macos"
    installed,          \* the versions of the installations _find_software finds
    scanRes,            \* the result of scan_software
    \* ---- the hooks: SceneOperation and SketchBookActions
    hookName,           \* the hook method called, "" when none is
    hookIn,             \* its arguments and the environment's replies
    hookRes,            \* what it returned or raised
    \* ---- the publish hooks: SketchBookPrePublishHook and the 'Begin file versioning' plugin
    showSaveDialogBound, \* whether the engine object has a show_save_dialog attribute
    pubName,            \* the hook method called last, "" when none is
    pubIn,              \* its arguments and the environment's replies
    pubRes,             \* what it returned or raised
    \* ---- SketchBookEngine._resolve_palette_stylesheet_tokens
    styleSheet,         \* the style sheet to resolve, a sequence of lexical atoms
    appPalette,         \* the brushes self._app_palette provides
    styleRes            \* the results of resolving it, and of resolving the result

opsVars == <<aliasApiBound, stageSelectedBound, hostPath, hostStages, opName, opIn, opRes>>

menuVars == <<commands, context, menuSet, refreshCalls, nativeMenu, menuDirty, refreshedStale>>

startVars == <<operationsBound, runAtStartup, fileToOpen, launchEnv, phase, initRes>>

scanVars == <<platform, installed, scanRes>>

hookVars == <<hookName, hookIn, hookRes>>

pubVars == <<showSaveDialogBound, pubName, pubIn, pubRes>>

styleVars == <<styleSheet, appPalette, styleRes>>

vars == <<opsVars, menuVars, startVars, scanVars, hookVars, pubVars, styleVars>>

exceptPub == <<opsVars, menuVars, startVars, scanVars, hookVars, styleVars>>

exceptStyle == <<opsVars, menuVars, startVars, scanVars, hookVars, pubVars>>

exceptHook == <<opsVars, menuVars, startVars, scanVars, pubVars, styleVars>>

\* what an operation of SketchBookOperations leaves alone
exceptOps == <<menuVars, startVars, scanVars, hookVars, pubVars, styleVars>>

\* what the menu and the registry leave alone
exceptMenu == <<opsVars, startVars, scanVars, hookVars, pubVars, styleVars>>

-----------------------------------------------------------------------------
(* Bounds of the model *)

\* number of distinct file paths the environment uses
MaxPaths == 2
\* largest number of stages the host reports
MaxStages == 2
\* number of distinct messages the native API returns
MaxMessages == 2

Paths == {<<"path", i>> : i \in 1..MaxPaths}
NoPath == <<>>
HostPaths == Paths \cup {NoPath}
Messages == {<<"native message", i>> : i \in 1..MaxMessages}
NoMessage == <<>>

\* QtGui.QMessageBox.Yes / No / Cancel
Answers == {"Yes", "No", "Cancel"}

-----------------------------------------------------------------------------
(* Results of an operation *)

NoValue == [kind |-> "None"]

\* one request of the trace: a native API request, a file usage hook
\* notification, an engine signal or a dialog
Ev(kind, name, arg, ok, msg) == [kind |-> kind, name |-> name, arg |-> arg, ok |-> ok, msg |-> msg]

Raise(tr, text) == [trace |-> tr, outcome |-> "raised", text |-> text, value |-> NoValue]

Return(tr, value) == [trace |-> tr, outcome |-> "returned", text |-> <<>>, value |-> value]

NoResult == [trace |-> <<>>, outcome |-> "none", text |-> <<>>, value |-> NoValue]

\* the text of the NameError raised by reading the unbound name alias_api
NameErrorText == <<"name 'alias_api' is not defined">>

\* the text of the AttributeError raised by reading engine.stage_selected
AttributeErrorText == <<"'SketchBookEngine' object has no attribute 'stage_selected'">>

\* the arguments of an invocation and the environment's replies during it
Inputs(path, exists, standalone, create_stage, items, can_open, answer, success, message) == [path |-> path, exists |-> exists, standalone |-> standalone, create_stage |-> create_stage, items |-> items, can_open |-> can_open, answer |-> answer, success |-> success, message |-> message]

NoInputs == Inputs(NoPath, FALSE, FALSE, FALSE, 0, FALSE, "Cancel", FALSE, NoMessage)

-----------------------------------------------------------------------------
(* SketchBookOperations *)

\* self._engine.stage_selected()
stage_selected(tr) ==
    IF ~stageSelectedBound THEN Raise(tr, AttributeErrorText)
    ELSE Return(Append(tr, Ev("engine", "stage_selected", NoPath, TRUE, NoMessage)), NoValue)

get_current_path(tr) ==
    IF ~aliasApiBound THEN Raise(tr, NameErrorText)
    ELSE Return(Append(tr, Ev("native", "get_current_path", NoPath, TRUE, NoMessage)), [kind |-> "str", s |-> hostPath])

get_stages_number(tr) ==
    IF ~aliasApiBound THEN Raise(tr, NameErrorText)
    ELSE Return(Append(tr, Ev("native", "get_stages_number", NoPath, TRUE, NoMessage)), [kind |-> "int", n |-> hostStages])

current_file_closed(tr) ==
    LET p == get_current_path(tr) IN
    IF p.outcome = "raised" THEN p
    ELSE IF p.value.s = NoPath THEN Return(p.trace, NoValue)
    ELSE Return(Append(p.trace, Ev("hook", "file_closed", p.value.s, TRUE, NoMessage)), NoValue)

can_open_file(tr, in) ==
    Return(Append(tr, Ev("hook", "file_attempt_open", in.path, in.can_open, NoMessage)), [kind |-> "bool", b |-> in.can_open])

\* a request to the native API that answers with a (success, message) pair
NativeRequest(tr, name, in) == Append(tr, Ev("native", name, in.path, in.success, in.message))

open_file_as_new_stage(tr, in) ==
    LET c == current_file_closed(tr) IN
    IF c.outcome = "raised" THEN c
    ELSE LET t == NativeRequest(c.trace, "open_file_as_new_stage", in) IN
         IF ~in.success THEN Raise(t, <<"Error opening as new stage the file ", in.path>>)
         ELSE Return(t, NoValue)

open_file_as_new_scene(tr, in) ==
    IF ~aliasApiBound THEN Raise(tr, NameErrorText)
    ELSE LET t == NativeRequest(tr, "open_file_as_new_scene", in) IN
         IF ~in.success THEN Raise(t, <<"Error opening the file ", in.path>>)
         ELSE Return(t, NoValue)

save_file(tr, in) ==
    IF ~aliasApiBound THEN Raise(tr, NameErrorText)
    ELSE LET t == NativeRequest(tr, "save_file", [in EXCEPT !.path = NoPath]) IN
         IF ~in.success THEN Raise(t, <<"Error saving the current file">>)
         ELSE Return(t, NoValue)

\* save_file_as with the hook notified of the new path before the reply is looked at
save_file_as_notify_first(tr, in) ==
    LET c == current_file_closed(tr) IN
    IF c.outcome = "raised" THEN c
    ELSE LET t == Append(NativeRequest(c.trace, "save_file_as", in), Ev("hook", "file_attempt_open", in.path, in.can_open, NoMessage)) IN
         IF ~in.success THEN Raise(t, <<"Error saving the file ", in.path>>)
         ELSE Return(t, NoValue)

save_file_as(tr, in) ==
    LET c == current_file_closed(tr) IN
    IF c.outcome = "raised" THEN c
    ELSE LET t == NativeRequest(c.trace, "save_file_as", in) IN
         IF ~in.success THEN Raise(t, <<"Error saving the file ", in.path>>)
         ELSE Return(Append(t, Ev("hook", "file_attempt_open", in.path, in.can_open, NoMessage)), NoValue)

\* reset_scene with the native failure logged and dropped
reset_scene_swallow(tr, in) ==
    LET c == current_file_closed(tr) IN
    IF c.outcome = "raised" THEN c
    ELSE Return(NativeRequest(c.trace, "reset_scene", [in EXCEPT !.path = NoPath]), NoValue)

reset_scene(tr, in) ==
    LET c == current_file_closed(tr) IN
    IF c.outcome = "raised" THEN c
    ELSE LET t == NativeRequest(c.trace, "reset_scene", [in EXCEPT !.path = NoPath]) IN
         IF ~in.success THEN Raise(t, <<"Error resetting the scene">>)
         ELSE Return(t, NoValue)

\* QtGui.QMessageBox.question(...): the user's answer is in.answer
Question(tr, in) == Append(tr, Ev("dialog", "question", NoPath, in.answer # "Cancel", <<in.answer>>))

\* lines 47-52 of open_file
OpenAs(tr, in, as_new_stage) ==
    LET o == IF as_new_stage THEN open_file_as_new_stage(tr, in) ELSE open_file_as_new_scene(tr, in) IN
    IF o.outcome = "raised" THEN o ELSE stage_selected(o.trace)

\* lines 36-45 of open_file, entered when the scene holds something
AskAndOpen(tr, in) ==
    LET t == Question(tr, in) IN
    IF in.answer = "Cancel" THEN Return(t, NoValue)
    ELSE OpenAs(t, in, in.answer = "No")

open_file(tr, in) ==
    LET a == can_open_file(tr, in) IN
    IF ~a.value.b THEN Return(a.trace, NoValue)
    ELSE LET p == get_current_path(a.trace) IN
         IF p.outcome = "raised" THEN p
         ELSE IF p.value.s # NoPath THEN AskAndOpen(p.trace, in)
         ELSE LET n == get_stages_number(p.trace) IN
              IF n.value.n > 1 THEN AskAndOpen(n.trace, in)
              ELSE OpenAs(n.trace, in, FALSE)

create_new_file(tr, in) ==
    LET t == Question(tr, in) IN
    IF in.answer = "Cancel" THEN Return(t, NoValue)
    ELSE IF in.answer = "No" THEN
         IF ~aliasApiBound THEN Raise(t, NameErrorText)
         ELSE Return(Append(t, Ev("native", "create_new_stage", NoPath, TRUE, NoMessage)), NoValue)
    ELSE reset_scene(t, in)

\* the dict returned when standalone is false
ResultDict(in) == [kind |-> "dict", message_type |-> IF in.success THEN "information" ELSE "warning", message_code |-> in.message, publish_path |-> in.path, is_error |-> IF in.success THEN FALSE ELSE TRUE]

FileNotFoundText(in) == <<"File not found on disk - '%s'", in.path>>

\* lines 186-197, 213-224, 236-247: what create_reference, import_file and
\* create_texture_node do with the native reply
AfterLoad(t, in, errorText, title) ==
    LET s == IF in.success THEN stage_selected(t) ELSE Return(t, NoValue) IN
    IF s.outcome = "raised" THEN s
    ELSE IF ~in.standalone THEN Return(s.trace, ResultDict(in))
    ELSE IF ~in.success THEN Raise(s.trace, errorText)
    ELSE Return(Append(s.trace, Ev("dialog", "information", NoPath, TRUE, <<title>>)), NoValue)

create_reference(tr, in) ==
    IF ~in.exists THEN Raise(tr, FileNotFoundText(in))
    ELSE IF ~aliasApiBound THEN Raise(tr, NameErrorText)
    ELSE AfterLoad(NativeRequest(tr, "create_reference", in), in, <<"Error creating the reference">>, "Reference File")

import_file(tr, in) ==
    IF ~in.exists THEN Raise(tr, FileNotFoundText(in))
    ELSE IF ~aliasApiBound THEN Raise(tr, NameErrorText)
    ELSE AfterLoad(NativeRequest(tr, IF in.create_stage THEN "open_file_as_new_stage" ELSE "import_file", in), in, <<"Error import the file">>, "Import File")

create_texture_node(tr, in) ==
    IF ~in.exists THEN Raise(tr, FileNotFoundText(in))
    ELSE IF ~aliasApiBound THEN Raise(tr, NameErrorText)
    ELSE AfterLoad(NativeRequest(tr, "create_texture_node", in), in, <<"Error creating a texture node">>, "Texture Node")

UpdateSceneText == <<"One or more selected items cannot be updated.\nIf there is another version of this file referenced, please check the Alias Reference Manager and remove its reference to enable the update.">>

update_scene(tr, in) ==
    IF in.items = 0 THEN Return(tr, NoValue)
    ELSE IF ~aliasApiBound THEN Raise(tr, NameErrorText)
    ELSE LET t == NativeRequest(tr, "update_scene", [in EXCEPT !.path = NoPath]) IN
         IF ~in.success THEN Raise(t, UpdateSceneText)
         ELSE Return(t, NoValue)

-----------------------------------------------------------------------------
(* The actions of SketchBookOperations: one invocation each *)

\* the native requests that change the host's state
StateChanging == {"open_file_as_new_stage", "open_file_as_new_scene", "save_file", "save_file_as", "reset_scene", "create_reference", "import_file", "create_texture_node", "update_scene", "create_new_stage"}

\* the native requests that answer with a (success, message) pair
PairRequests == StateChanging \ {"create_new_stage"}

\* the invocation is over: its result is recorded. No operation reads the
\* host's state after a state-changing request, so what the request leaves in
\* the host shows at the next invocation only: HostChanges
Finish(name, in, r) ==
    /\ opName = ""
    /\ opName' = name
    /\ opIn' = in
    /\ opRes' = r
    /\ UNCHANGED <<aliasApiBound, stageSelectedBound, hostPath, hostStages, exceptOps>>

\* between two invocations the scene of the host changes: through the
\* requests of the last invocation, or through the user
HostChanges ==
    /\ opName = ""
    /\ \E np \in HostPaths, ns \in 1..MaxStages :
          /\ <<np, ns>> # <<hostPath, hostStages>>
          /\ hostPath' = np
          /\ hostStages' = ns
    /\ UNCHANGED <<aliasApiBound, stageSelectedBound, opName, opIn, opRes, exceptOps>>

\* the caller has taken the result: the next invocation can start
OpReturn ==
    /\ opName # ""
    /\ opName' = ""
    /\ opIn' = NoInputs
    /\ opRes' = NoResult
    /\ UNCHANGED <<aliasApiBound, stageSelectedBound, hostPath, hostStages, exceptOps>>

OpOpenFile ==
    \E p \in Paths, co \in BOOLEAN, a \in Answers, s \in BOOLEAN, m \in Messages :
        LET in == Inputs(p, TRUE, TRUE, FALSE, 0, co, a, s, m) IN Finish("open_file", in, open_file(<<>>, in))

OpCreateNewFile ==
    \E a \in Answers, s \in BOOLEAN, m \in Messages :
        LET in == Inputs(NoPath, TRUE, TRUE, FALSE, 0, TRUE, a, s, m) IN Finish("create_new_file", in, create_new_file(<<>>, in))

OpOpenFileAsNewStage ==
    \E p \in Paths, s \in BOOLEAN, m \in Messages :
        LET in == Inputs(p, TRUE, TRUE, FALSE, 0, TRUE, "Yes", s, m) IN Finish("open_file_as_new_stage", in, open_file_as_new_stage(<<>>, in))

OpOpenFileAsNewScene ==
    \E p \in Paths, s \in BOOLEAN, m \in Messages :
        LET in == Inputs(p, TRUE, TRUE, FALSE, 0, TRUE, "Yes", s, m) IN Finish("open_file_as_new_scene", in, open_file_as_new_scene(<<>>, in))

OpSaveFile ==
    \E s \in BOOLEAN, m \in Messages :
        LET in == Inputs(NoPath, TRUE, TRUE, FALSE, 0, TRUE, "Yes", s, m) IN Finish("save_file", in, save_file(<<>>, in))

OpSaveFileAs ==
    \E p \in Paths, co \in BOOLEAN, s \in BOOLEAN, m \in Messages :
        LET in == Inputs(p, TRUE, TRUE, FALSE, 0, co, "Yes", s, m) IN Finish("save_file_as", in, save_file_as(<<>>, in))

OpResetScene ==
    \E s \in BOOLEAN, m \in Messages :
        LET in == Inputs(NoPath, TRUE, TRUE, FALSE, 0, TRUE, "Yes", s, m) IN Finish("reset_scene", in, reset_scene(<<>>, in))

OpCreateReference ==
    \E p \in Paths, e \in BOOLEAN, sa \in BOOLEAN, s \in BOOLEAN, m \in Messages :
        LET in == Inputs(p, e, sa, FALSE, 0, TRUE, "Yes", s, m) IN Finish("create_reference", in, create_reference(<<>>, in))

OpImportFile ==
    \E p \in Paths, e \in BOOLEAN, sa \in BOOLEAN, cs \in BOOLEAN, s \in BOOLEAN, m \in Messages :
        LET in == Inputs(p, e, sa, cs, 0, TRUE, "Yes", s, m) IN Finish("import_file", in, import_file(<<>>, in))

OpCreateTextureNode ==
    \E p \in Paths, e \in BOOLEAN, sa \in BOOLEAN, s \in BOOLEAN, m \in Messages :
        LET in == Inputs(p, e, sa, FALSE, 0, TRUE, "Yes", s, m) IN Finish("create_texture_node", in, create_texture_node(<<>>, in))

OpUpdateScene ==
    \E n \in 0..1, s \in BOOLEAN, m \in Messages :
        LET in == Inputs(NoPath, TRUE, TRUE, FALSE, n, TRUE, "Yes", s, m) IN Finish("update_scene", in, update_scene(<<>>, in))

OpsEnvInit ==
    /\ aliasApiBound \in BOOLEAN
    /\ stageSelectedBound \in BOOLEAN
    /\ hostPath \in HostPaths
    /\ hostStages \in 1..MaxStages

OpsInit ==
    /\ OpsEnvInit
    /\ opName = ""
    /\ opIn = NoInputs
    /\ opRes = NoResult

OpsNext ==
    \/ OpOpenFile
    \/ OpCreateNewFile
    \/ OpOpenFileAsNewStage
    \/ OpOpenFileAsNewScene
    \/ OpSaveFile
    \/ OpSaveFileAs
    \/ OpResetScene
    \/ OpCreateReference
    \/ OpImportFile
    \/ OpCreateTextureNode
    \/ OpUpdateScene
    \/ OpReturn
    \/ HostChanges

-----------------------------------------------------------------------------
(* The command registry and the context, both owned by the framework *)

\* number of native refresh_menu calls followed after the first
MaxRefresh == 2

CmdNames == {"Publish...", "Load..."}
AppNames == {"tk-multi-publish2", "tk-multi-loader2"}
\* properties without an "app" entry
NoApp == ""
\* the "type" property: "context_menu" or another one (a command without the
\* property compares like the latter: None is not "context_menu")
Types == {"context_menu", "panel"}

Command(name, type, app) == [name |-> name, type |-> type, app |-> app]

\* str(engine.context) and whether context.filesystem_locations is non-empty
Contexts == {[name |-> "Asset Chair", filesystem_locations |-> TRUE], [name |-> "Project Demo", filesystem_locations |-> FALSE]}

Registered(cmds) == {cmds[i].name : i \in 1..Len(cmds)}

\* the framework's register_command: a dict assignment, which keeps the place
\* of a name that is already there
register_command(cmds, c) ==
    IF c.name \in Registered(cmds) THEN [i \in 1..Len(cmds) |-> IF cmds[i].name = c.name THEN c ELSE cmds[i]]
    ELSE Append(cmds, c)

-----------------------------------------------------------------------------
(* SketchBookMenu *)

JUMP_TO_SG_TEXT == "Jump to Shotgun"
JUMP_TO_FS_TEXT == "Jump to File System"
SEPARATOR_ITEM == "_SEPARATOR_"

IsContextMenu(c) == c.type = "context_menu"

IsNotContextMenu(c) == c.type # "context_menu"

NamesOf(cmds) == [i \in 1..Len(cmds) |-> cmds[i].name]

create_context_submenu(cmds, ctx) ==
    LET names == IF ctx.filesystem_locations THEN <<JUMP_TO_SG_TEXT, JUMP_TO_FS_TEXT, SEPARATOR_ITEM>> ELSE <<JUMP_TO_SG_TEXT, SEPARATOR_ITEM>> IN
    <<ctx.name, names \o NamesOf(SelectSeq(cmds, IsContextMenu))>>

\* create_apps_entries without its filter on the type
create_apps_entries_all(cmds) == [i \in 1..Len(cmds) |-> <<cmds[i].name, <<>>>>]

create_apps_entries(cmds) ==
    LET apps == SelectSeq(cmds, IsNotContextMenu) IN
    [i \in 1..Len(apps) |-> <<apps[i].name, <<>>>>]

\* create that builds the list once and hands the same list over ever after
create_cached(cmds, ctx) ==
    IF refreshCalls > 0 THEN nativeMenu
    ELSE <<create_context_submenu(cmds, ctx), <<SEPARATOR_ITEM, <<>>>>>> \o <<<<SEPARATOR_ITEM, <<>>>>>> \o create_apps_entries(cmds)

create(cmds, ctx) ==
    <<create_context_submenu(cmds, ctx), <<SEPARATOR_ITEM, <<>>>>>> \o <<<<SEPARATOR_ITEM, <<>>>>>> \o create_apps_entries(cmds)

-----------------------------------------------------------------------------
(* The engine's menu refresh *)

\* sketchbook_api.refresh_menu(self.menu.create()) with the context ctx
NativeRefresh(ctx) ==
    /\ refreshCalls <= MaxRefresh
    /\ refreshCalls' = refreshCalls + 1
    /\ nativeMenu' = create(commands, ctx)
    /\ menuDirty' = FALSE
    /\ refreshedStale' = (refreshedStale \/ (menuDirty /\ refreshCalls > 0))

\* SketchBookEngine.refresh_menu; nothing calls it before post_app_init has
\* created the menu
refresh_menu ==
    /\ menuSet
    /\ NativeRefresh(context)
    /\ UNCHANGED <<commands, context, menuSet, exceptMenu>>

\* the framework changes the context and then calls post_context_change,
\* which refreshes because context_change_allowed is True
post_context_change ==
    /\ menuSet
    /\ \E new \in Contexts \ {context} :
          /\ context' = new
          /\ NativeRefresh(new)
    /\ UNCHANGED <<commands, menuSet, exceptMenu>>

\* the framework registers a command of an app
RegisterCommand ==
    /\ \E n \in CmdNames, t \in Types :
          /\ commands' = register_command(commands, Command(n, t, NoApp))
          /\ commands' # commands
    /\ menuDirty' = TRUE
    /\ UNCHANGED <<context, menuSet, refreshCalls, nativeMenu, refreshedStale, exceptMenu>>

\* the framework drops the registry when it reloads the apps
ClearCommands ==
    /\ commands # <<>>
    /\ commands' = <<>>
    /\ menuDirty' = TRUE
    /\ UNCHANGED <<context, menuSet, refreshCalls, nativeMenu, refreshedStale, exceptMenu>>

OpsIdle ==
    /\ aliasApiBound = TRUE
    /\ stageSelectedBound = TRUE
    /\ hostPath = NoPath
    /\ hostStages = 1
    /\ opName = ""
    /\ opIn = NoInputs
    /\ opRes = NoResult

\* the engine before post_app_init
MenuIdle ==
    /\ commands = <<>>
    /\ context \in {c \in Contexts : c.filesystem_locations}
    /\ menuSet = FALSE
    /\ refreshCalls = 0
    /\ nativeMenu = <<>>
    /\ menuDirty = FALSE
    /\ refreshedStale = FALSE

\* the engine once post_app_init has created the menu and refreshed it
MenuInit ==
    /\ commands = <<>>
    /\ context \in Contexts
    /\ menuSet = TRUE
    /\ refreshCalls = 1
    /\ nativeMenu = <<create_context_submenu(<<>>, context), <<SEPARATOR_ITEM, <<>>>>, <<SEPARATOR_ITEM, <<>>>>>>
    /\ menuDirty = FALSE
    /\ refreshedStale = FALSE

MenuNext ==
    \/ refresh_menu
    \/ post_context_change
    \/ RegisterCommand
    \/ ClearCommands

-----------------------------------------------------------------------------
(* SketchBookLauncher.prepare_launch *)

\* number of entries of the 'run_at_startup' setting
MaxEntries == 2

\* file_to_open=None
NoneArg == <<"None">>
\* a variable the environment does not hold
Absent == <<"absent">>

FileArgs == {NoneArg, NoPath} \cup Paths

NoEnv == [SGTK_ENGINE |-> Absent, SGTK_CONTEXT |-> Absent, SGTK_FILE_TO_OPEN |-> Absent]

\* required_env of prepare_launch
prepare_launch(file_to_open, ctx) ==
    [SGTK_ENGINE |-> <<"tk-sketchbook">>, SGTK_CONTEXT |-> <<ctx.name>>, SGTK_FILE_TO_OPEN |-> IF file_to_open \notin {NoneArg, NoPath} THEN file_to_open ELSE Absent]

-----------------------------------------------------------------------------
(* SketchBookEngine.post_app_init and _run_app_instance_commands *)

\* an entry names an app instance and one of its commands, or '' for them all
Entries == [app_instance : AppNames, name : {"", "Publish..."}]

HasApp(c) == c.app # NoApp

\* app_instance_commands.get(app) of a dict built from every command: the
\* owning app is not looked at
CommandDictAnyApp(cmds, app) == NamesOf(SelectSeq(cmds, HasApp))

\* app_instance_commands.get(app): the names of the commands the app instance
\* registered, in the order of the registry; <<>> for None
CommandDict(cmds, app) == NamesOf(SelectSeq(cmds, LAMBDA c : HasApp(c) /\ c.app = app))

\* what one entry of the setting appends to commands_to_run
EntrySelection(cmds, e) ==
    LET command_dict == CommandDict(cmds, e.app_instance) IN
    IF command_dict = <<>> THEN <<>>
    ELSE IF e.name = "" THEN command_dict
    ELSE IF \E k \in 1..Len(command_dict) : command_dict[k] = e.name THEN <<e.name>>
    ELSE <<>>

\* the loop over the setting, from entry i on: commands_to_run
RECURSIVE CommandsToRun(_, _, _)
CommandsToRun(cmds, setting, i) ==
    IF i > Len(setting) THEN <<>>
    ELSE EntrySelection(cmds, setting[i]) \o CommandsToRun(cmds, setting, i + 1)

\* the loop over the setting without its warnings
ExamineEntriesQuiet(cmds, setting, i) == [k \in 1..(Len(setting) - i + 1) |-> Ev("setting", "examine", <<"entry", k + i - 1>>, TRUE, NoMessage)]

\* the loop over the setting, from entry i on: the entries examined and the
\* warnings logged
RECURSIVE ExamineEntries(_, _, _)
ExamineEntries(cmds, setting, i) ==
    IF i > Len(setting) THEN <<>>
    ELSE <<Ev("setting", "examine", <<"entry", i>>, TRUE, NoMessage)>>
         \o (IF EntrySelection(cmds, setting[i]) = <<>> THEN <<Ev("log", "warning", <<"entry", i>>, TRUE, NoMessage)>> ELSE <<>>)
         \o ExamineEntries(cmds, setting, i + 1)

CallbackErrorText == <<"error raised by a command callback">>

\* the callbacks called in turn, the error of one caught and the rest called
RunCommandsAll(tr, to_run, raiseAt) == Return(tr \o [k \in 1..Len(to_run) |-> Ev("callback", "call", <<"command", to_run[k]>>, k # raiseAt, NoMessage)], NoValue)

\* lines 299-305: the callbacks are called in turn; the raiseAt-th call raises
\* (none does when raiseAt is 0)
RunCommands(tr, to_run, raiseAt) ==
    LET n == IF raiseAt \in 1..Len(to_run) THEN raiseAt ELSE Len(to_run)
        t == tr \o [k \in 1..n |-> Ev("callback", "call", <<"command", to_run[k]>>, k # raiseAt, NoMessage)]
    IN
    IF raiseAt \in 1..Len(to_run) THEN Raise(t, CallbackErrorText) ELSE Return(t, NoValue)

run_app_instance_commands(tr, cmds, setting, raiseAt) ==
    LET t == Append(tr, Ev("engine", "_run_app_instance_commands", NoPath, TRUE, NoMessage)) \o ExamineEntries(cmds, setting, 1)
        commands_to_run == CommandsToRun(cmds, setting, 1)
    IN
    IF commands_to_run = <<>> THEN Return(t, NoValue)
    ELSE RunCommands(t, commands_to_run, raiseAt)

OperationsErrorText == <<"'SketchBookEngine' object has no attribute 'operations'">>

\* lines 131-133: the menu is created and refreshed
MenuEvents == <<Ev("engine", "menu_created", NoPath, TRUE, NoMessage), Ev("native", "refresh_menu", NoPath, TRUE, NoMessage)>>

post_app_init(env, in, cmds, setting, raiseAt) ==
    LET path == env.SGTK_FILE_TO_OPEN IN
    IF path \notin {Absent, NoPath} THEN
        IF ~operationsBound THEN Raise(MenuEvents, OperationsErrorText)
        ELSE LET o == open_file(Append(MenuEvents, Ev("engine", "operations.open_file", path, TRUE, NoMessage)), in) IN
             IF o.outcome = "raised" THEN o
             ELSE run_app_instance_commands(o.trace, cmds, setting, raiseAt)
    ELSE run_app_instance_commands(MenuEvents, cmds, setting, raiseAt)

\* the replies of the environment to operations.open_file(path), when
\* post_app_init gets to call it
OpenInputs(path) ==
    IF path \in {Absent, NoPath} \/ ~operationsBound THEN {Inputs(path, TRUE, TRUE, FALSE, 0, TRUE, "Yes", TRUE, NoMessage)}
    ELSE {Inputs(path, TRUE, TRUE, FALSE, 0, co, a, s, m) : co \in BOOLEAN, a \in Answers, s \in BOOLEAN, m \in Messages}

\* the launcher prepares the environment the host is started with
PrepareLaunch ==
    /\ phase = "off"
    /\ \E f \in FileArgs :
          /\ fileToOpen' = f
          /\ launchEnv' = prepare_launch(f, context)
    /\ phase' = "launched"
    /\ UNCHANGED <<operationsBound, runAtStartup, initRes, menuVars, opsVars, scanVars, hookVars, pubVars, styleVars>>

\* the framework has loaded the apps and calls post_app_init
PostAppInit ==
    /\ phase = "launched"
    /\ \E in \in OpenInputs(launchEnv.SGTK_FILE_TO_OPEN), raiseAt \in 0..Len(CommandsToRun(commands, runAtStartup, 1)) :
          initRes' = post_app_init(launchEnv, in, commands, runAtStartup, raiseAt)
    /\ phase' = "running"
    /\ menuSet' = TRUE
    /\ refreshCalls' = refreshCalls + 1
    /\ nativeMenu' = create(commands, context)
    /\ UNCHANGED <<commands, context, menuDirty, refreshedStale>>
    /\ UNCHANGED <<operationsBound, runAtStartup, fileToOpen, launchEnv, opsVars, scanVars, hookVars, pubVars, styleVars>>

StartIdle ==
    /\ operationsBound = TRUE
    /\ runAtStartup = <<>>
    /\ fileToOpen = NoneArg
    /\ launchEnv = NoEnv
    /\ phase = "running"
    /\ initRes = NoResult

\* the commands the apps register while the engine starts
StartupCommands == {Command(n, "panel", a) : n \in CmdNames, a \in AppNames \cup {NoApp}}

Registries == {<<>>} \cup {<<c>> : c \in StartupCommands} \cup {r \in StartupCommands \X StartupCommands : r[1].name # r[2].name}

Settings == UNION {[1..n -> Entries] : n \in 0..MaxEntries}

StartNext ==
    \/ PrepareLaunch
    \/ PostAppInit

-----------------------------------------------------------------------------
(* Strings, as sequences of characters, and Python's int() and str() *)

DigitChars == <<"0", "1", "2", "3", "4", "5", "6", "7", "8", "9">>

IsDigit(c) == \E d \in 1..10 : DigitChars[d] = c

DigitOf(c) == (CHOOSE d \in 1..10 : DigitChars[d] = c) - 1

AllDigits(str) == str # <<>> /\ \A i \in 1..Len(str) : IsDigit(str[i])

RECURSIVE DigitsValue(_)
DigitsValue(str) ==
    IF str = <<>> THEN 0
    ELSE DigitsValue(SubSeq(str, 1, Len(str) - 1)) * 10 + DigitOf(str[Len(str)])

\* int(str): ok is false where Python raises ValueError
ParseInt(str) ==
    IF AllDigits(str) THEN [ok |-> TRUE, val |-> DigitsValue(str)]
    ELSE IF Len(str) >= 2 /\ str[1] \in {"-", "+"} /\ AllDigits(Tail(str)) THEN [ok |-> TRUE, val |-> IF str[1] = "-" THEN 0 - DigitsValue(Tail(str)) ELSE DigitsValue(Tail(str))]
    ELSE [ok |-> FALSE, val |-> 0]

RECURSIVE NatToStr(_)
NatToStr(n) == IF n < 10 THEN <<DigitChars[n + 1]>> ELSE NatToStr(n \div 10) \o <<DigitChars[(n % 10) + 1]>>

\* str(n)
IntToStr(n) == IF n < 0 THEN <<"-">> \o NatToStr(0 - n) ELSE NatToStr(n)

\* str[a:b], for 0 <= a <= b
Slice(str, a, b) == SubSeq(str, a + 1, IF b < Len(str) THEN b ELSE Len(str))

IsNotDot(c) == c # "."

\* str.replace(".", "")
WithoutDots(str) == SelectSeq(str, IsNotDot)

-----------------------------------------------------------------------------
(* SketchBookLauncher.scan_software *)

\* number of installations _find_software finds
MaxInstalls == 2

minimum_supported_version == <<"2", "0", "2", "1", ".", "1">>

map_version_year(version) ==
    LET year == ParseInt(Slice(version, 0, 1))
        dot == ParseInt(Slice(version, 2, 3))
    IN
    IF year.ok /\ dot.ok THEN IntToStr(year.val + 2013) \o <<".">> \o IntToStr(dot.val - 8)
    ELSE version

\* the version _find_software gives the SoftwareVersion of an installation
find_software(versions) == [i \in 1..Len(versions) |-> [path |-> i, version |-> map_version_year(versions[i])]]

\* str(version).join(".0"): the characters of ".0" with the version between them
JoinDotZero(version) == <<".">> \o version \o <<"0">>

\* the (supported, reason) pair of _is_supported; every error is caught
is_supported(sw_version) ==
    LET compare_version == IF Len(sw_version.version) = 5 THEN JoinDotZero(sw_version.version) ELSE sw_version.version
        n == ParseInt(WithoutDots(compare_version))
        min == ParseInt(WithoutDots(minimum_supported_version))
    IN
    IF ~n.ok \/ ~min.ok THEN <<FALSE, "Error determining SketchBook version">>
    ELSE IF n.val >= min.val THEN <<TRUE, "">>
    ELSE <<FALSE, "Unsupported version of SketchBook">>

IsSupported(sw_version) == is_supported(sw_version)[1]

scan_software(os, versions) ==
    IF os = "linux" THEN <<>>
    ELSE SelectSeq(find_software(versions), IsSupported)

\* the versions the host reports: major.minor of SketchBook 7 to 9, the
\* versions the source names, and versions _map_version_year leaves as they are
NativeVersions ==
    {<<a, ".", b>> : a \in {"7", "8", "9"}, b \in {"0", "7", "8", "9"}}
    \cup {<<"8", ".", "9", ".", "0", ".", "0">>, <<"0", ".", "0", ".", "0", ".", "0">>, <<"8", ".", "7", ".", "1">>}
    \cup {<<>>, <<"1", "2", ".", "3", "4">>, <<"9", "9", ".", "9", "9">>}

ScanSoftware ==
    /\ scanRes = [done |-> FALSE, found |-> <<>>]
    /\ scanRes' = [done |-> TRUE, found |-> scan_software(platform, installed)]
    /\ UNCHANGED <<platform, installed, opsVars, menuVars, startVars, hookVars, pubVars, styleVars>>

\* the launcher is used again
ScanReset ==
    /\ scanRes.done
    /\ scanRes' = [done |-> FALSE, found |-> <<>>]
    /\ UNCHANGED <<platform, installed, opsVars, menuVars, startVars, hookVars, pubVars, styleVars>>

ScanIdle ==
    /\ platform = "linux"
    /\ installed = <<>>
    /\ scanRes = [done |-> FALSE, found |-> <<>>]

ScanInit ==
    /\ platform \in {"linux", "windows", "macos"}
    /\ installed \in UNION {[1..n -> NativeVersions] : n \in 0..MaxInstalls}
    /\ scanRes = [done |-> FALSE, found |-> <<>>]

ScanNext ==
    \/ ScanSoftware
    \/ ScanReset

-----------------------------------------------------------------------------
(* The hooks: SceneOperation.execute and SketchBookActions *)

\* length of the actions list given to SketchBookActions
MaxActions == 2

\* file versions the workfiles app passes
MaxVersion == 1

Operations == {"current_path", "open", "save", "save_as", "reset", "prepare_new"}

ParentActions == {"open_file", "new_file", "save_file_as", "version_up"}

\* the action names of the configuration: the two of this hook and one more
ActionNames == {"open_file", "add_image", "reference"}

ActionLists == UNION {[1..n -> ActionNames] : n \in 0..MaxActions}

HookInputs(operation, file_path, parent_action, file_version, read_only, actions, base, knows, failAt, failIn) == [operation |-> operation, file_path |-> file_path, parent_action |-> parent_action, file_version |-> file_version, read_only |-> read_only, actions |-> actions, base |-> base, knows |-> knows, failAt |-> failAt, failIn |-> failIn]

NoHookInputs == HookInputs("", NoPath, "", 0, FALSE, <<>>, "absent", {}, 0, "native")

\* the text of the NameError raised by reading the unbound name get_current_path
SceneNameErrorText == <<"name 'get_current_path' is not defined">>

\* SceneOperation.execute
execute(tr, in) ==
    IF in.operation = "current_path" THEN Raise(tr, SceneNameErrorText)
    ELSE Return(tr, NoValue)

IsRequested(in, name) == \E i \in 1..Len(in.actions) : in.actions[i] = name

IsKnown(in, name) == name \in in.knows

\* an action instance: a dictionary with the keys name, params, caption and description
ActionInstance(name, caption, description) == [name |-> name, params |-> "None", caption |-> caption, description |-> description]

BaseInstance(name) == ActionInstance(name, "caption of the base class", "description of the base class")

\* HookBaseClass.generate_actions: an instance for each action the base class knows
RECURSIVE BaseInstances(_, _)
BaseInstances(in, i) ==
    IF i > Len(in.actions) THEN <<>>
    ELSE (IF IsKnown(in, in.actions[i]) THEN <<BaseInstance(in.actions[i])>> ELSE <<>>) \o BaseInstances(in, i + 1)

BaseErrorText == <<"error raised by the base class">>

OwnInstances(in) ==
    (IF IsRequested(in, "open_file") THEN <<ActionInstance("open_file", "Open File", "Open an image file to start working with.")>> ELSE <<>>)
    \o (IF IsRequested(in, "add_image") THEN <<ActionInstance("add_image", "Add Image...", "This will import the selected image file to the canvas.")>> ELSE <<>>)

\* SketchBookActions.generate_actions
generate_actions(tr, in) ==
    IF in.base = "raises" THEN Raise(Append(tr, Ev("base", "generate_actions", <<"actions">>, FALSE, BaseErrorText)), BaseErrorText)
    ELSE IF in.base = "absent" THEN Return(Append(tr, Ev("base", "generate_actions", <<"actions">>, FALSE, <<"AttributeError">>)), [kind |-> "list", items |-> OwnInstances(in)])
    ELSE Return(Append(tr, Ev("base", "generate_actions", <<"actions">>, TRUE, NoMessage)), [kind |-> "list", items |-> BaseInstances(in, 1) \o OwnInstances(in)])

PublishPathErrorText == <<"error raised by get_publish_path">>

NativeErrorText == <<"error raised by sketchbook_api">>

\* the open_file and add_image branches of execute_action
NativeAction(tr, i, name, in) ==
    IF in.failAt = i /\ in.failIn = "path" THEN Raise(Append(tr, Ev("hook", "get_publish_path", <<"action", i, name>>, FALSE, PublishPathErrorText)), PublishPathErrorText)
    ELSE LET t == Append(tr, Ev("hook", "get_publish_path", <<"action", i, name>>, TRUE, NoMessage)) IN
         IF in.failAt = i THEN Raise(Append(t, Ev("native", name, <<"action", i, name>>, FALSE, NativeErrorText)), NativeErrorText)
         ELSE Return(Append(t, Ev("native", name, <<"action", i, name>>, TRUE, NoMessage)), NoValue)

\* the last branch of execute_action: the base class, AttributeError ignored
BaseAction(tr, i, name, in) ==
    IF in.base = "absent" THEN Return(Append(tr, Ev("base", "execute_action", <<"action", i, name>>, FALSE, <<"AttributeError">>)), NoValue)
    ELSE IF in.failAt = i /\ in.failIn = "AttributeError" THEN Return(Append(tr, Ev("base", "execute_action", <<"action", i, name>>, FALSE, <<"AttributeError">>)), NoValue)
    ELSE IF in.failAt = i THEN Raise(Append(tr, Ev("base", "execute_action", <<"action", i, name>>, FALSE, BaseErrorText)), BaseErrorText)
    ELSE Return(Append(tr, Ev("base", "execute_action", <<"action", i, name>>, TRUE, NoMessage)), NoValue)

\* SketchBookActions.execute_action, for the i-th action of the list
execute_action(tr, i, name, in) ==
    LET t == Append(tr, Ev("dispatch", "execute_action", <<"action", i, name>>, TRUE, NoMessage)) IN
    IF name \in {"open_file", "add_image"} THEN NativeAction(t, i, name, in)
    ELSE BaseAction(t, i, name, in)

RECURSIVE ExecuteAll(_, _, _)
ExecuteAll(tr, i, in) ==
    IF i > Len(in.actions) THEN Return(tr, NoValue)
    ELSE ExecuteAll(execute_action(tr, i, in.actions[i], in).trace, i + 1, in)

\* the loop of execute_multiple_actions, from the i-th action on
RECURSIVE ExecuteFrom(_, _, _)
ExecuteFrom(tr, i, in) ==
    IF i > Len(in.actions) THEN Return(tr, NoValue)
    ELSE LET r == execute_action(tr, i, in.actions[i], in) IN
         IF r.outcome = "raised" THEN r ELSE ExecuteFrom(r.trace, i + 1, in)

execute_multiple_actions_continue(tr, in) == ExecuteAll(tr, 1, in)

\* SketchBookActions.execute_multiple_actions
execute_multiple_actions(tr, in) == ExecuteFrom(tr, 1, in)

HookCall(name, in, r) ==
    /\ hookName = ""
    /\ hookName' = name
    /\ hookIn' = in
    /\ hookRes' = r
    /\ UNCHANGED exceptHook

HookReturn ==
    /\ hookName # ""
    /\ hookName' = ""
    /\ hookIn' = NoHookInputs
    /\ hookRes' = NoResult
    /\ UNCHANGED exceptHook

SceneExecute ==
    \E operation \in Operations, file_path \in Paths \cup {NoPath}, parent_action \in ParentActions, file_version \in 0..MaxVersion, read_only \in BOOLEAN :
        LET in == HookInputs(operation, file_path, parent_action, file_version, read_only, <<>>, "absent", {}, 0, "native") IN
        HookCall("execute", in, execute(<<>>, in))

GenerateActions ==
    \E actions \in ActionLists, base \in {"absent", "present", "raises"}, knows \in SUBSET ActionNames :
        /\ base # "present" => knows = {}
        /\ LET in == HookInputs("", NoPath, "", 0, FALSE, actions, base, knows, 0, "native") IN
           HookCall("generate_actions", in, generate_actions(<<>>, in))

ExecuteMultipleActions ==
    \E actions \in ActionLists, base \in {"absent", "present"}, failAt \in 0..MaxActions, failIn \in {"path", "native", "AttributeError"} :
        /\ failAt <= Len(actions)
        /\ failAt = 0 => failIn = "native"
        /\ LET in == HookInputs("", NoPath, "", 0, FALSE, actions, base, {}, failAt, failIn) IN
           HookCall("execute_multiple_actions", in, execute_multiple_actions(<<>>, in))

HookIdle ==
    /\ hookName = ""
    /\ hookIn = NoHookInputs
    /\ hookRes = NoResult

HookNext ==
    \/ SceneExecute
    \/ GenerateActions
    \/ ExecuteMultipleActions
    \/ HookReturn

-----------------------------------------------------------------------------
(* The publish hooks: SketchBookPrePublishHook.validate and the 'Begin file *)
(* versioning' plugin                                                       *)

Bool(b) == [kind |-> "bool", b |-> b]

PubInputs(require_save, path, answer, path2, errAt, errKind, reply, exists, has_version, save_ok, save_as_ok, message) == [require_save |-> require_save, path |-> path, answer |-> answer, path2 |-> path2, errAt |-> errAt, errKind |-> errKind, reply |-> reply, exists |-> exists, has_version |-> has_version, save_ok |-> save_ok, save_as_ok |-> save_as_ok, message |-> message]

NoPubInputs == PubInputs(FALSE, NoPath, "Cancel", NoPath, 0, "Error", "path", FALSE, FALSE, TRUE, TRUE, NoMessage)

ShowSaveDialogErrorText == <<"'SketchBookEngine' object has no attribute 'show_save_dialog'">>

ApiAttributeErrorText == <<"AttributeError raised by sketchbook_api">>

ApiErrorText == <<"error raised by sketchbook_api">>

\* the except clause that lets every error leave validate
PrePublishErrorPropagates(tr, kind, text) == Raise(tr, text)

\* lines 51-57 of pre_publish.py: an AttributeError is logged and shown and
\* makes the result False; any other error leaves validate
PrePublishError(tr, kind, text) ==
    IF kind = "AttributeError" THEN Return(tr \o <<Ev("log", "error", NoPath, TRUE, text), Ev("dialog", "critical", NoPath, TRUE, text)>>, Bool(FALSE))
    ELSE Raise(tr, text)

\* lines 46-49 of pre_publish.py: the save dialog, then the path again
SaveThroughDialog(tr, in) ==
    IF ~showSaveDialogBound THEN PrePublishError(tr, "AttributeError", ShowSaveDialogErrorText)
    ELSE IF in.errAt = 2 THEN PrePublishError(Append(tr, Ev("engine", "show_save_dialog", NoPath, FALSE, NoMessage)), in.errKind, IF in.errKind = "AttributeError" THEN ApiAttributeErrorText ELSE ApiErrorText)
    ELSE LET t == Append(tr, Ev("engine", "show_save_dialog", NoPath, TRUE, NoMessage)) IN
         IF in.errAt = 3 THEN PrePublishError(Append(t, Ev("native", "get_current_path", NoPath, FALSE, NoMessage)), in.errKind, IF in.errKind = "AttributeError" THEN ApiAttributeErrorText ELSE ApiErrorText)
         ELSE Return(Append(t, Ev("native", "get_current_path", in.path2, TRUE, NoMessage)), Bool(in.path2 # NoPath))

\* SketchBookPrePublishHook.validate
pre_publish_validate(tr, in) ==
    IF ~in.require_save THEN Return(tr, Bool(TRUE))
    ELSE IF in.errAt = 1 THEN PrePublishError(Append(tr, Ev("native", "get_current_path", NoPath, FALSE, NoMessage)), in.errKind, IF in.errKind = "AttributeError" THEN ApiAttributeErrorText ELSE ApiErrorText)
    ELSE LET t == Append(tr, Ev("native", "get_current_path", in.path, TRUE, NoMessage)) IN
         IF in.path # NoPath THEN Return(t, Bool(TRUE))
         ELSE LET q == Append(t, Ev("dialog", "question", NoPath, TRUE, <<in.answer>>)) IN
              IF in.answer = "Yes" THEN SaveThroughDialog(q, in)
              ELSE Return(q, Bool(FALSE))

\* _session_path
session_path(tr, in) == Append(tr, Ev("native", "get_current_path", in.path, TRUE, NoMessage))

\* _get_save_as_action reads engine.show_save_dialog
get_save_as_action(tr) ==
    IF ~showSaveDialogBound THEN Raise(tr, ShowSaveDialogErrorText)
    ELSE Return(tr, NoValue)

\* SketchBookStartVersionControlPlugin.accept
accept(tr, in) ==
    LET t == session_path(tr, in) IN
    IF in.path # NoPath /\ in.has_version THEN Return(Append(t, Ev("log", "info", in.path, TRUE, <<"rejected">>)), [kind |-> "dict", accepted |-> FALSE])
    ELSE IF in.path = NoPath /\ get_save_as_action(t).outcome = "raised" THEN get_save_as_action(t)
    ELSE Return((IF in.path = NoPath THEN Append(t, Ev("log", "warn", NoPath, TRUE, <<"not saved">>)) ELSE t) \o <<Ev("log", "info", in.path, TRUE, <<"accepted">>)>>, [kind |-> "dict", accepted |-> TRUE, checked |-> FALSE])

\* publisher.util.get_version_path(path, "v001") of the publish app
VersionPath(path) == <<"v001", path>>

VersionPathErrorText == <<"error raised by get_version_path">>

FileExistsText == <<"A file already exists with a version number. Please choose another name.">>

\* validate that looks for the file under the session path itself
version_validate_session_path(tr, in) ==
    LET u == session_path(tr, in) \o <<Ev("os", "exists", in.path, in.path # NoPath, NoMessage)>> IN
    IF in.path = NoPath THEN Return(u, Bool(TRUE)) ELSE Raise(u, FileExistsText)

\* SketchBookStartVersionControlPlugin.validate
version_validate(tr, in) ==
    LET t == session_path(tr, in) IN
    IF in.reply = "raises" THEN Raise(Append(t, Ev("util", "get_version_path", in.path, FALSE, VersionPathErrorText)), VersionPathErrorText)
    ELSE LET u == t \o <<Ev("util", "get_version_path", in.path, TRUE, NoMessage), Ev("os", "exists", VersionPath(in.path), in.exists, NoMessage)>> IN
         IF ~in.exists THEN Return(u, Bool(TRUE))
         ELSE IF get_save_as_action(u).outcome = "raised" THEN get_save_as_action(u)
         ELSE Raise(Append(u, Ev("log", "error", NoPath, TRUE, FileExistsText)), FileExistsText)

\* sgtk.util.ShotgunPath.normalize
Normalized(path) == <<"normalized", path>>

\* SketchBookStartVersionControlPlugin.publish: the replies of the two save
\* requests are not looked at
publish(tr, in) ==
    LET path == Normalized(in.path)
        t == session_path(tr, in)
        version_path == VersionPath(path)
    IN
    Return(t \o <<Ev("native", "save_file", NoPath, in.save_ok, in.message),
                  Ev("util", "get_version_path", path, TRUE, NoMessage),
                  Ev("native", "save_file_as", version_path, in.save_as_ok, in.message),
                  Ev("log", "info", NoPath, TRUE, <<"A version number has been added to the SketchBook file...">>),
                  Ev("log", "info", version_path, TRUE, <<"  SketchBook file path: %s">>)>>, NoValue)

PubCall(name, in, r) ==
    /\ pubName' = name
    /\ pubIn' = in
    /\ pubRes' = r
    /\ UNCHANGED <<showSaveDialogBound, exceptPub>>

PubReturn ==
    /\ pubName # ""
    /\ pubName' = ""
    /\ pubIn' = NoPubInputs
    /\ pubRes' = NoResult
    /\ UNCHANGED <<showSaveDialogBound, exceptPub>>

\* the publish app asks the pre publish hook before it shows its dialog
PrePublishValidate ==
    \E require_save \in BOOLEAN, path \in HostPaths, answer \in Answers, path2 \in HostPaths, errAt \in 0..3, errKind \in {"AttributeError", "Error"} :
        /\ pubName = ""
        /\ errAt = 0 => errKind = "Error"
        /\ (path # NoPath \/ answer # "Yes") => path2 = path
        /\ LET in == PubInputs(require_save, path, answer, path2, errAt, errKind, "path", FALSE, FALSE, TRUE, TRUE, NoMessage) IN
           PubCall("validate", in, pre_publish_validate(<<>>, in))

VersionAccept ==
    \E path \in HostPaths, has_version \in BOOLEAN :
        /\ pubName = ""
        /\ path = NoPath => ~has_version
        /\ LET in == PubInputs(FALSE, path, "Cancel", path, 0, "Error", "path", FALSE, has_version, TRUE, TRUE, NoMessage) IN
           PubCall("accept", in, accept(<<>>, in))

\* the publish app validates the items of the plugins that accepted them
VersionValidate ==
    \E reply \in {"path", "raises"}, exists \in BOOLEAN :
        /\ pubName = "accept"
        /\ pubRes.outcome = "returned" /\ pubRes.value.accepted
        /\ reply = "raises" => ~exists
        /\ LET in == [pubIn EXCEPT !.reply = reply, !.exists = exists] IN
           PubCall("version_validate", in, version_validate(<<>>, in))

\* the publish app publishes the items whose validation returned True
VersionPublish ==
    \E save_ok \in BOOLEAN, save_as_ok \in BOOLEAN, message \in Messages \cup {NoMessage} :
        /\ pubName = "version_validate"
        /\ pubRes.outcome = "returned" /\ pubRes.value = Bool(TRUE)
        /\ (save_ok /\ save_as_ok) <=> message = NoMessage
        /\ LET in == [pubIn EXCEPT !.save_ok = save_ok, !.save_as_ok = save_as_ok, !.message = message] IN
           PubCall("publish", in, publish(<<>>, in))

PubIdle ==
    /\ showSaveDialogBound = TRUE
    /\ pubName = ""
    /\ pubIn = NoPubInputs
    /\ pubRes = NoResult

PubInit ==
    /\ showSaveDialogBound \in BOOLEAN
    /\ pubName = ""
    /\ pubIn = NoPubInputs
    /\ pubRes = NoResult

PubNext ==
    \/ PrePublishValidate
    \/ VersionAccept
    \/ VersionValidate
    \/ VersionPublish
    \/ PubReturn

-----------------------------------------------------------------------------
(* SketchBookEngine._resolve_palette_stylesheet_tokens *)

\* length of a style sheet, in lexical atoms
MaxSheet == 6

\* a style sheet is a sequence of lexical atoms: "palette(", a name, ")" and
\* other text; palette(dark) is the three atoms "palette(", "dark", ")"
Atoms == {"palette(", ")", "dark", "link", "x"}

palette_brushes == <<"dark", "base", "mid", "midlight", "light", "text", "alternateBase", "brightText", "button", "buttonText", "highlight", "link", "linkVisited", "shadow", "toolTipBase", "toolTipText", "window", "windowText">>

ListedBrushes == {palette_brushes[i] : i \in 1..Len(palette_brushes)}

\* "palette(%s)" % brush
Token(brush) == <<"palette(", brush, ")">>

\* getattr(self._app_palette, brush)().color().name()
ColorName(brush) ==
    CASE brush = "dark" -> "#111111"
      [] brush = "link" -> "#222222"
      [] OTHER -> "#000000"

\* str.replace that stops after the first occurrence
RECURSIVE replace_first(_, _, _)
replace_first(str, old, new) ==
    IF Len(str) < Len(old) THEN str
    ELSE IF SubSeq(str, 1, Len(old)) = old THEN new \o SubSeq(str, Len(old) + 1, Len(str))
    ELSE <<Head(str)>> \o replace_first(Tail(str), old, new)

\* str.replace(old, new): every occurrence, from the left, without overlap
RECURSIVE replace(_, _, _)
replace(str, old, new) ==
    IF Len(str) < Len(old) THEN str
    ELSE IF SubSeq(str, 1, Len(old)) = old THEN new \o replace(SubSeq(str, Len(old) + 1, Len(str)), old, new)
    ELSE <<Head(str)>> \o replace(Tail(str), old, new)

\* the loop over self._palette_brushes, from the i-th brush on: the style
\* sheet processed and the brushes logged as invalid
RECURSIVE ResolveFrom(_, _, _)
ResolveFrom(sheet, palette, i) ==
    IF i > Len(palette_brushes) THEN [sheet |-> sheet, logged |-> <<>>]
    ELSE IF palette_brushes[i] \in palette THEN ResolveFrom(replace(sheet, Token(palette_brushes[i]), <<ColorName(palette_brushes[i])>>), palette, i + 1)
    ELSE LET r == ResolveFrom(sheet, palette, i + 1) IN [sheet |-> r.sheet, logged |-> <<palette_brushes[i]>> \o r.logged]

resolve_palette_stylesheet_tokens(style_sheet, palette) == ResolveFrom(style_sheet, palette, 1)

\* a widget's style sheet is resolved
ResolveStyleSheet ==
    /\ styleRes = <<>>
    /\ styleRes' = <<resolve_palette_stylesheet_tokens(styleSheet, appPalette)>>
    /\ UNCHANGED <<styleSheet, appPalette, exceptStyle>>

\* the resolved style sheet is resolved again
ResolveResolved ==
    /\ Len(styleRes) = 1
    /\ styleRes' = Append(styleRes, resolve_palette_stylesheet_tokens(styleRes[1].sheet, appPalette))
    /\ UNCHANGED <<styleSheet, appPalette, exceptStyle>>

\* the palettes: one that provides every listed brush and one without the
\* link brush
Palettes == {ListedBrushes, ListedBrushes \ {"link"}}

StyleIdle ==
    /\ styleSheet = <<>>
    /\ appPalette = ListedBrushes
    /\ styleRes = <<>>

StyleInit ==
    /\ styleSheet \in UNION {[1..n -> Atoms] : n \in 0..MaxSheet}
    /\ appPalette \in Palettes
    /\ styleRes = <<>>

StyleNext ==
    \/ ResolveStyleSheet
    \/ ResolveResolved

-----------------------------------------------------------------------------
(* Specifications *)

Init == OpsInit /\ MenuIdle /\ StartIdle /\ ScanIdle /\ HookIdle /\ PubIdle /\ StyleIdle

Next == OpsNext

\* the operations of SketchBookOperations, invoked one after the other
Spec == Init /\ [][Next]_vars

\* the menu of a running engine while the framework changes the registry and
\* the context
InitMenu == OpsIdle /\ MenuInit /\ StartIdle /\ ScanIdle /\ HookIdle /\ PubIdle /\ StyleIdle

\* the publish hooks, called by the publish app
InitPublish == OpsIdle /\ MenuIdle /\ StartIdle /\ ScanIdle /\ HookIdle /\ PubInit /\ StyleIdle

\* the style sheets of the widgets and the palettes of the engine
InitStyle == OpsIdle /\ MenuIdle /\ StartIdle /\ ScanIdle /\ HookIdle /\ PubIdle /\ StyleInit

SpecStyle == InitStyle /\ [][StyleNext]_vars

SpecPublish == InitPublish /\ [][PubNext]_vars

\* the hooks, called by the apps one at a time
InitHook == OpsIdle /\ MenuIdle /\ StartIdle /\ ScanIdle /\ HookIdle /\ PubIdle /\ StyleIdle

SpecHook == InitHook /\ [][HookNext]_vars

\* scan_software on every platform, for the installations found there
InitScan == OpsIdle /\ MenuIdle /\ StartIdle /\ ScanInit /\ HookIdle /\ PubIdle /\ StyleIdle

SpecScan == InitScan /\ [][ScanNext]_vars

\* the launch of the host and of the engine for every registry and setting,
\* the scene of the host being empty
InitStartup ==
    /\ OpsIdle
    /\ commands \in Registries
    /\ context \in {c \in Contexts : c.filesystem_locations}
    /\ menuSet = FALSE
    /\ refreshCalls = 0
    /\ nativeMenu = <<>>
    /\ menuDirty = FALSE
    /\ refreshedStale = FALSE
    /\ operationsBound \in BOOLEAN
    /\ runAtStartup \in Settings
    /\ fileToOpen = NoneArg
    /\ launchEnv = NoEnv
    /\ phase = "off"
    /\ initRes = NoResult
    /\ ScanIdle
    /\ HookIdle
    /\ PubIdle
    /\ StyleIdle

SpecStartup == InitStartup /\ [][StartNext]_vars

\* the launch of the host and of the engine in every environment, the apps
\* having registered one command each
InitLaunch ==
    /\ OpsInit
    /\ commands \in {<<Command("Publish...", "panel", "tk-multi-publish2"), Command("Load...", "panel", "tk-multi-loader2")>>, <<Command("Publish...", "panel", "tk-multi-publish2")>>}
    /\ context \in Contexts
    /\ menuSet = FALSE
    /\ refreshCalls = 0
    /\ nativeMenu = <<>>
    /\ menuDirty = FALSE
    /\ refreshedStale = FALSE
    /\ operationsBound \in BOOLEAN
    /\ runAtStartup \in {x \in Settings : Len(x) <= 1}
    /\ fileToOpen = NoneArg
    /\ launchEnv = NoEnv
    /\ phase = "off"
    /\ initRes = NoResult
    /\ ScanIdle
    /\ HookIdle
    /\ PubIdle
    /\ StyleIdle

SpecLaunch == InitLaunch /\ [][StartNext]_vars

SpecMenu == InitMenu /\ [][MenuNext]_vars

-----------------------------------------------------------------------------
(* Claims about SketchBookOperations *)

\* the failed (success, message) replies in the trace of the last invocation
FailedRequests == {i \in 1..Len(opRes.trace) : opRes.trace[i].kind = "native" /\ opRes.trace[i].name \in PairRequests /\ ~opRes.trace[i].ok}

\* create_reference, import_file and create_texture_node raise on a native
\* failure in standalone mode only
RaisingMode == opName \in {"create_reference", "import_file", "create_texture_node"} => opIn.standalone

\* the text each operation raises with when the native request fails
FixedErrorText(op, request, path) ==
    CASE op = "create_reference" -> <<"Error creating the reference">>
      [] op = "import_file" -> <<"Error import the file">>
      [] op = "create_texture_node" -> <<"Error creating a texture node">>
      [] op = "update_scene" -> UpdateSceneText
      [] op \notin {"create_reference", "import_file", "create_texture_node", "update_scene"} /\ request = "open_file_as_new_stage" -> <<"Error opening as new stage the file ", path>>
      [] op \notin {"create_reference", "import_file", "create_texture_node", "update_scene"} /\ request = "open_file_as_new_scene" -> <<"Error opening the file ", path>>
      [] op \notin {"create_reference", "import_file", "create_texture_node", "update_scene"} /\ request = "save_file" -> <<"Error saving the current file">>
      [] op \notin {"create_reference", "import_file", "create_texture_node", "update_scene"} /\ request = "save_file_as" -> <<"Error saving the file ", path>>
      [] OTHER -> <<"Error resetting the scene">>

\* C1 as stated: whenever the native API answers success = false, the
\* operation raises an error whose text is the message the native API returned
C1_RaisesNativeMessage ==
    \A i \in FailedRequests : RaisingMode => opRes.outcome = "raised" /\ opRes.text = opRes.trace[i].msg

\* C1 as amended: whenever the native API answers success = false, the
\* operation raises an error, and the text of the error is the fixed text of
\* that operation (with the path put in for the open and save-as operations)
C1_RaisesFixedText ==
    \A i \in FailedRequests : RaisingMode =>
        /\ opRes.outcome = "raised"
        /\ opRes.text = FixedErrorText(opName, opRes.trace[i].name, opIn.path)

\* C1 witness: a reset whose native request failed has raised
C1_Witness ==
    /\ opName = "reset_scene"
    /\ FailedRequests # {}
    /\ opRes.outcome = "raised"

\* C4: within one invocation each state-changing native request is issued at
\* most once, and after a request that reported failure the operation issues
\* no further state-changing native request and no file usage hook notification
C4_NoRetryNoRecovery ==
    LET t == opRes.trace IN
    /\ \A i, j \in 1..Len(t) : (i < j /\ t[i].kind = "native" /\ t[i].name \in StateChanging /\ t[j].kind = "native") => t[j].name # t[i].name
    /\ \A i \in FailedRequests : \A j \in (i + 1)..Len(t) : ~(t[j].kind = "hook") /\ ~(t[j].kind = "native" /\ t[j].name \in StateChanging)

\* C4 witness: a save-as that closed the current file, failed and raised
C4_Witness ==
    /\ opName = "save_file_as"
    /\ FailedRequests # {}
    /\ \E i \in 1..Len(opRes.trace) : opRes.trace[i].name = "file_closed"
    /\ opRes.outcome = "raised"

\* the native requests in the trace of the last invocation
NativePlaces == {k \in 1..Len(opRes.trace) : opRes.trace[k].kind = "native"}

\* the places where the engine's stage_selected was signalled
SignalPlaces == {k \in 1..Len(opRes.trace) : opRes.trace[k].kind = "engine" /\ opRes.trace[k].name = "stage_selected"}

\* the dict the claim describes for the reply (success, message)
ClaimedDict(success, message) == [kind |-> "dict", is_error |-> ~success, message_type |-> IF success THEN "information" ELSE "warning", message_code |-> message, publish_path |-> opIn.path]

\* C18 as stated, for create_reference, import_file and create_texture_node:
\* a path that is not on disk raises before any native request; with
\* standalone false the call returns the dict of the native reply and a
\* native failure never raises; with standalone true a native failure raises;
\* stage_selected is signalled iff the native request succeeded; import_file
\* issues exactly one native request, open_file_as_new_stage iff create_stage
C18_LoadContract ==
    opName \in {"create_reference", "import_file", "create_texture_node"} =>
        /\ ~opIn.exists => (opRes.outcome = "raised" /\ opRes.text = FileNotFoundText(opIn) /\ NativePlaces = {})
        /\ (opIn.exists /\ ~opIn.standalone) => (opRes.outcome = "returned" /\ opRes.value = ClaimedDict(opIn.success, opIn.message))
        /\ \A k \in NativePlaces : (opIn.standalone /\ ~opRes.trace[k].ok) => opRes.outcome = "raised"
        /\ SignalPlaces # {} <=> \E k \in NativePlaces : opRes.trace[k].ok
        /\ (opName = "import_file" /\ opIn.exists) =>
              /\ Cardinality(NativePlaces) = 1
              /\ \A k \in NativePlaces : opRes.trace[k].name = (IF opIn.create_stage THEN "open_file_as_new_stage" ELSE "import_file") /\ opRes.trace[k].arg = opIn.path

\* what the three operations do: C18 where the names alias_api and
\* engine.stage_selected are bound
C18_LoadContractWhenBound ==
    (aliasApiBound /\ stageSelectedBound) => C18_LoadContract

\* an import of a file on disk whose native request succeeded
C18_Witness ==
    /\ opName = "import_file"
    /\ opIn.exists
    /\ ~opIn.standalone
    /\ \E k \in NativePlaces : opRes.trace[k].ok

-----------------------------------------------------------------------------
(* Claims about the menu *)

\* the label n is in the menu item list m: in the context submenu or as a
\* top-level entry
InMenu(m, n) ==
    \/ \E i \in 1..Len(m) : m[i][1] = n
    \/ \E i \in 1..Len(m) : \E k \in 1..Len(m[i][2]) : m[i][2][k] = n

\* C2: every refresh hands one list to the native refresh_menu, exactly once,
\* and that list is built from the registry and the context as they are at
\* the refresh: it holds a command iff the registry holds it, whatever the
\* earlier refreshes handed over
C2_RefreshHandsFreshList ==
    [][refreshCalls' # refreshCalls =>
        /\ refreshCalls' = refreshCalls + 1
        /\ nativeMenu'[1][1] = context'.name
        /\ \A n \in CmdNames : InMenu(nativeMenu', n) <=> n \in Registered(commands')]_vars

\* C2 witness: a refresh has followed a change of the registry that came
\* after an earlier refresh, and the registry is not empty
C2_Witness ==
    /\ refreshedStale
    /\ ~menuDirty
    /\ refreshCalls >= 2
    /\ commands # <<>>

\* C3: the list create returns is the context submenu, two separators, then
\* one [name, []] entry per command that is no context_menu command; every
\* command is there exactly once, in the submenu iff it is a context_menu
\* command, and every other label is the context name, a Jump to entry or the
\* separator
C3_MenuStructure ==
    (refreshCalls > 0 /\ ~menuDirty) =>
        LET m == nativeMenu
            sub == nativeMenu[1][2]
        IN
        /\ Len(m) = 3 + Cardinality({k \in 1..Len(commands) : commands[k].type # "context_menu"})
        /\ m[1][1] = context.name
        /\ m[2] = <<SEPARATOR_ITEM, <<>>>>
        /\ m[3] = <<SEPARATOR_ITEM, <<>>>>
        /\ \A i \in 4..Len(m) : m[i][2] = <<>> /\ \E k \in 1..Len(commands) : commands[k].name = m[i][1] /\ commands[k].type # "context_menu"
        /\ \A j \in 1..Len(sub) : sub[j] \in {JUMP_TO_SG_TEXT, JUMP_TO_FS_TEXT, SEPARATOR_ITEM} \cup Registered(commands)
        /\ \A k \in 1..Len(commands) :
              /\ Cardinality({i \in 4..Len(m) : m[i][1] = commands[k].name}) = (IF commands[k].type = "context_menu" THEN 0 ELSE 1)
              /\ Cardinality({j \in 1..Len(sub) : sub[j] = commands[k].name}) = (IF commands[k].type = "context_menu" THEN 1 ELSE 0)

\* C3 witness: the list of a registry that holds a context_menu command and
\* another command has been handed over
C3_Witness ==
    /\ refreshCalls > 1
    /\ ~menuDirty
    /\ \E k \in 1..Len(commands) : commands[k].type = "context_menu"
    /\ \E k \in 1..Len(commands) : commands[k].type # "context_menu"

-----------------------------------------------------------------------------
(* Claims about the launch *)

\* the places of the trace of post_app_init where a callback is called
CallPlaces == {k \in 1..Len(initRes.trace) : initRes.trace[k].kind = "callback"}

\* how often the callback of the command named n was called
CallCount(n) == Cardinality({k \in CallPlaces : initRes.trace[k].arg = <<"command", n>>})

\* the entry e of the setting selects the registered command c
SelectedBy(e, c) == c.app # NoApp /\ c.app = e.app_instance /\ (e.name = "" \/ e.name = c.name)

\* how many entries of the setting select the command named n
SelectCount(n) == Cardinality({i \in 1..Len(runAtStartup) : \E k \in 1..Len(commands) : commands[k].name = n /\ SelectedBy(runAtStartup[i], commands[k])})

\* post_app_init got to _run_app_instance_commands
RunEntered == \E k \in 1..Len(initRes.trace) : initRes.trace[k].name = "_run_app_instance_commands"

\* C5 as stated: the callbacks _run_app_instance_commands invokes are exactly
\* the selected ones: each command's callback is invoked once per entry that
\* selects it ('' selects every command of the entry's app instance, a name
\* the command of that app instance with that name)
C5_InvokesExactlySelected ==
    RunEntered => \A n \in CmdNames : CallCount(n) = SelectCount(n)

\* C5 as amended: no callback is invoked more often than entries select it (a
\* command of an app instance no entry names, or without an owning app,
\* never); when no callback raises the callbacks invoked are exactly the
\* selected ones; when one raises it is the last one invoked
C5_InvokesSelectedUntilRaise ==
    RunEntered =>
        /\ \A n \in CmdNames : CallCount(n) <= SelectCount(n)
        /\ initRes.outcome = "returned" => \A n \in CmdNames : CallCount(n) = SelectCount(n)
        /\ \A k \in CallPlaces : ~initRes.trace[k].ok => k = Len(initRes.trace) /\ initRes.outcome = "raised"
        /\ initRes.outcome = "raised" => \E k \in CallPlaces : ~initRes.trace[k].ok

\* C5 witness: the startup commands have run without an error; one command
\* was invoked twice and another registered command was not invoked
C5_Witness ==
    /\ RunEntered
    /\ initRes.outcome = "returned"
    /\ \E n \in CmdNames : CallCount(n) = 2
    /\ \E k \in 1..Len(commands) : CallCount(commands[k].name) = 0

\* SGTK_FILE_TO_OPEN is set in the environment of the engine
FileSet == launchEnv.SGTK_FILE_TO_OPEN \in Paths

\* the places where post_app_init calls operations.open_file
OpenPlaces == {k \in 1..Len(initRes.trace) : initRes.trace[k].name = "operations.open_file"}

FailedIn(t) == {i \in 1..Len(t) : t[i].kind = "native" /\ t[i].name \in PairRequests /\ ~t[i].ok}

\* the launcher's part of C6: SGTK_FILE_TO_OPEN is the file given, and is
\* absent when none is
LaunchEnvHoldsFile ==
    phase # "off" =>
        /\ fileToOpen \in Paths => launchEnv.SGTK_FILE_TO_OPEN = fileToOpen
        /\ fileToOpen \notin Paths => launchEnv.SGTK_FILE_TO_OPEN = Absent

\* C6 as stated: the launcher puts the file given in SGTK_FILE_TO_OPEN; if it
\* is set, post_app_init opens the file through the file operations once the
\* menu is created and refreshed and before any startup command, and then
\* goes on to run the startup commands; if it is not set no file is opened
C6_OpensFileThenRunsCommands ==
    /\ LaunchEnvHoldsFile
    /\ (phase = "running" /\ initRes # NoResult) =>
          /\ FileSet =>
                /\ \E k \in OpenPlaces : k > 2 /\ initRes.trace[k].arg = launchEnv.SGTK_FILE_TO_OPEN /\ \A c \in CallPlaces : c > k
                /\ RunEntered
          /\ ~FileSet => OpenPlaces = {}

\* what post_app_init does: it goes on to run the startup commands only when
\* the call of open_file returns: when it raises (the native open reports
\* failure, or the engine has no operations object to call) the error leaves
\* post_app_init and no startup command is invoked
C6_OpensFileThenRunsCommandsIfOpened ==
    /\ LaunchEnvHoldsFile
    /\ (phase = "running" /\ initRes # NoResult) =>
          /\ initRes.trace[1].name = "menu_created" /\ initRes.trace[2].name = "refresh_menu"
          /\ (FileSet /\ operationsBound) => OpenPlaces = {3} /\ initRes.trace[3].arg = launchEnv.SGTK_FILE_TO_OPEN /\ \A c \in CallPlaces : c > 3
          /\ (FileSet /\ ~operationsBound) => OpenPlaces = {} /\ ~RunEntered
          /\ FailedIn(initRes.trace) # {} => ~RunEntered
          /\ ~RunEntered => initRes.outcome = "raised" /\ CallPlaces = {}
          /\ ~FileSet => OpenPlaces = {} /\ RunEntered /\ \A k \in 1..Len(initRes.trace) : initRes.trace[k].kind # "native" \/ initRes.trace[k].name = "refresh_menu"

\* C6 witness: the file of the launch environment was opened and a startup
\* command was invoked afterwards
C6_Witness ==
    /\ phase = "running"
    /\ FileSet
    /\ fileToOpen = launchEnv.SGTK_FILE_TO_OPEN
    /\ \E k \in 1..Len(initRes.trace) : initRes.trace[k].name = "open_file_as_new_scene" /\ initRes.trace[k].ok
    /\ CallPlaces # {}

\* the entry names an app instance with no registered commands, or a
\* command the app instance did not register
BadEntry(e) ==
    \/ ~\E k \in 1..Len(commands) : commands[k].app # NoApp /\ commands[k].app = e.app_instance
    \/ e.name # "" /\ ~\E k \in 1..Len(commands) : commands[k].app = e.app_instance /\ commands[k].name = e.name

\* the entries of the setting a warning was logged for
WarnedEntries == {i \in 1..Len(runAtStartup) : \E k \in 1..Len(initRes.trace) : initRes.trace[k].kind = "log" /\ initRes.trace[k].name = "warning" /\ initRes.trace[k].arg = <<"entry", i>>}

\* C16: an entry that names an app instance with no registered commands, or a
\* command its app instance did not register, is warned about and adds no
\* callback; it raises nothing, and the commands the other entries select
\* are run
C16_BadEntryWarnsOnly ==
    RunEntered =>
        /\ \A i \in 1..Len(runAtStartup) : i \in WarnedEntries <=> BadEntry(runAtStartup[i])
        /\ \A i \in WarnedEntries : \A k \in 1..Len(commands) : ~SelectedBy(runAtStartup[i], commands[k])
        /\ initRes.outcome = "raised" => \E c \in CallPlaces : ~initRes.trace[c].ok
        /\ (\A c \in CallPlaces : initRes.trace[c].ok) => (initRes.outcome = "returned" /\ \A n \in CmdNames : CallCount(n) = SelectCount(n))

\* C16 witness: one entry was warned about and the command another entry
\* selects was run
C16_Witness ==
    /\ RunEntered
    /\ Len(runAtStartup) = 2
    /\ Cardinality(WarnedEntries) = 1
    /\ CallPlaces # {}
    /\ initRes.outcome = "returned"

\* the places of the trace where an entry of the setting is examined
ExamPlaces == {k \in 1..Len(initRes.trace) : initRes.trace[k].kind = "setting" /\ initRes.trace[k].name = "examine"}

IsCallback(ev) == ev.kind = "callback"

\* the callbacks called, in the order of the calls
Calls == SelectSeq(initRes.trace, IsCallback)

\* the commands the entries select, entry after entry in the order of the
\* setting, the commands of one entry in the order of the registry
RECURSIVE ExpectedCalls(_)
ExpectedCalls(i) ==
    IF i > Len(runAtStartup) THEN <<>>
    ELSE NamesOf(SelectSeq(commands, LAMBDA c : SelectedBy(runAtStartup[i], c))) \o ExpectedCalls(i + 1)

\* C17: no callback is invoked before every entry of the setting has been
\* examined; the callbacks are then invoked one at a time in the order of the
\* entries, once for every entry that selects them; when one raises the error
\* leaves post_app_init and the callbacks after it are not invoked
C17_CallbacksInOrderUntilRaise ==
    RunEntered =>
        /\ Cardinality(ExamPlaces) = Len(runAtStartup)
        /\ \A e \in ExamPlaces : \A c \in CallPlaces : e < c
        /\ Len(Calls) <= Len(ExpectedCalls(1))
        /\ \A k \in 1..Len(Calls) : Calls[k].arg = <<"command", ExpectedCalls(1)[k]>>
        /\ (\A k \in 1..Len(Calls) : Calls[k].ok) => (Len(Calls) = Len(ExpectedCalls(1)) /\ initRes.outcome = "returned")
        /\ \A k \in 1..Len(Calls) : ~Calls[k].ok => (k = Len(Calls) /\ initRes.outcome = "raised" /\ initRes.text = CallbackErrorText)

\* C17 witness: a command selected by two entries was invoked a second time
\* and raised then, and the callbacks after it were not invoked
C17_Witness ==
    /\ RunEntered
    /\ initRes.outcome = "raised"
    /\ \E n \in CmdNames : SelectCount(n) = 2 /\ CallCount(n) = 2
    /\ Len(Calls) < Len(ExpectedCalls(1))

-----------------------------------------------------------------------------
(* Claims about scan_software *)

\* the components of a version, split at the dots
RECURSIVE Components(_)
Components(str) ==
    IF \A i \in 1..Len(str) : str[i] # "." THEN <<str>>
    ELSE LET d == CHOOSE i \in 1..Len(str) : str[i] = "." /\ \A j \in 1..(i - 1) : str[j] # "." IN
         <<SubSeq(str, 1, d - 1)>> \o Components(SubSeq(str, d + 1, Len(str)))

\* a version of numbers only
IsVersion(str) == \A i \in 1..Len(Components(str)) : ParseInt(Components(str)[i]).ok

Component(str, i) == IF i <= Len(Components(str)) THEN ParseInt(Components(str)[i]).val ELSE 0

\* v >= w when compared as versions: number by number, from the left
VersionAtLeast(v, w) ==
    LET n == IF Len(Components(v)) > Len(Components(w)) THEN Len(Components(v)) ELSE Len(Components(w)) IN
    \/ \A i \in 1..n : Component(v, i) = Component(w, i)
    \/ \E i \in 1..n : Component(v, i) > Component(w, i) /\ \A j \in 1..(i - 1) : Component(v, j) = Component(w, j)

\* the installations scan_software returned
Returned == {scanRes.found[k].path : k \in 1..Len(scanRes.found)}

\* C7: scan_software returns nothing on Linux and otherwise exactly the
\* installations whose year-mapped version is at least 2021.1 when compared
\* as versions
C7_ScanReturnsSupported ==
    scanRes.done =>
        /\ platform = "linux" => scanRes.found = <<>>
        /\ platform # "linux" => \A i \in 1..Len(installed) :
              i \in Returned <=> (IsVersion(map_version_year(installed[i])) /\ VersionAtLeast(map_version_year(installed[i]), minimum_supported_version))

-----------------------------------------------------------------------------
(* Claims about the hooks *)

\* C8 as stated: SceneOperation.execute returns without raising: a string for
\* 'current_path', a boolean for 'reset', None for every other operation
C8_ExecuteReturnsByOperation ==
    hookName = "execute" =>
        /\ hookRes.outcome = "returned"
        /\ hookIn.operation = "current_path" => hookRes.value.kind = "str"
        /\ hookIn.operation = "reset" => hookRes.value.kind = "bool"
        /\ hookIn.operation \notin {"current_path", "reset"} => hookRes.value = NoValue

\* what execute does: None for every operation but 'current_path', 'reset'
\* included, and a NameError for 'current_path'
C8_ExecuteReturnsNoneOrRaises ==
    hookName = "execute" =>
        /\ hookIn.operation = "current_path" => hookRes.outcome = "raised" /\ hookRes.text = SceneNameErrorText
        /\ hookIn.operation # "current_path" => hookRes.outcome = "returned" /\ hookRes.value = NoValue

\* execute was asked for the current path with a file open
C8_Witness ==
    /\ hookName = "execute"
    /\ hookIn.operation = "current_path"
    /\ hookIn.file_path \in Paths

\* the instances generate_actions returned
Instances == hookRes.value.items

\* C9 as stated: generate_actions returns at least one instance for each
\* action name passed, each a dictionary with the keys name, params, caption
\* and description, those of the base class first, then open_file, then
\* add_image
C9_GeneratesEveryAction ==
    (hookName = "generate_actions" /\ hookIn.base # "raises") =>
        /\ hookRes.outcome = "returned"
        /\ \A i \in 1..Len(hookIn.actions) : \E k \in 1..Len(Instances) : Instances[k].name = hookIn.actions[i]
        /\ \A k \in 1..Len(Instances) : DOMAIN Instances[k] = {"name", "params", "caption", "description"}
        /\ \A k, l \in 1..Len(Instances) : (Instances[k].caption = "Open File" /\ Instances[l].caption = "Add Image...") => k < l
        /\ \A k, l \in 1..Len(Instances) : (Instances[k].caption = "caption of the base class" /\ Instances[l].caption # "caption of the base class") => k < l

\* what generate_actions does: the instances of the base class, then
\* open_file and add_image when requested, and nothing for any other name
C9_GeneratesKnownActions ==
    (hookName = "generate_actions" /\ hookIn.base # "raises") =>
        /\ hookRes.outcome = "returned"
        /\ \A n \in {"open_file", "add_image"} : IsRequested(hookIn, n) <=> \E k \in 1..Len(Instances) : Instances[k].name = n /\ Instances[k].caption # "caption of the base class"
        /\ \A k \in 1..Len(Instances) : IsRequested(hookIn, Instances[k].name)
        /\ hookIn.base = "absent" => \A k \in 1..Len(Instances) : Instances[k].name \in {"open_file", "add_image"}

\* generate_actions was asked for an action neither it nor the base class knows
C9_Witness ==
    /\ hookName = "generate_actions"
    /\ hookIn.base = "absent"
    /\ IsRequested(hookIn, "reference")
    /\ IsRequested(hookIn, "open_file")

\* the places of the trace where execute_multiple_actions calls execute_action
Dispatches == {k \in 1..Len(hookRes.trace) : hookRes.trace[k].kind = "dispatch"}

\* execute_action was called for the i-th action of the list
Dispatched(i) == \E k \in Dispatches : hookRes.trace[k].arg = <<"action", i, hookIn.actions[i]>>

\* the call of execute_action for the i-th action raised
RaisedAt(i) == \E k \in 1..Len(hookRes.trace) : hookRes.trace[k].arg = <<"action", i, hookIn.actions[i]>> /\ ~hookRes.trace[k].ok /\ hookRes.trace[k].msg # <<"AttributeError">>

\* C10: execute_multiple_actions calls execute_action for the actions one at
\* a time in list order; when executing one raises, the error propagates, no
\* later action is executed and the earlier ones have been executed
C10_StopsAtFirstError ==
    hookName = "execute_multiple_actions" =>
        LET t == hookRes.trace IN
        /\ \A k, l \in Dispatches : k < l => t[k].arg[2] < t[l].arg[2]
        /\ \A k \in Dispatches : t[k].arg[2] \in 1..Len(hookIn.actions) /\ t[k].arg[3] = hookIn.actions[t[k].arg[2]]
        /\ \A i \in 1..Len(hookIn.actions) : RaisedAt(i) =>
              /\ hookRes.outcome = "raised"
              /\ hookRes.text = t[Len(t)].msg
              /\ \A j \in 1..Len(hookIn.actions) : Dispatched(j) <=> j <= i
              /\ \A j \in 1..(i - 1) : ~RaisedAt(j)
              /\ \A k \in 1..Len(t) : t[k].arg[2] <= i
        /\ (\A i \in 1..Len(hookIn.actions) : ~RaisedAt(i)) =>
              /\ hookRes.outcome = "returned"
              /\ \A j \in 1..Len(hookIn.actions) : Dispatched(j)

\* C10 witness: the first action was executed, the second raised and the
\* error left execute_multiple_actions
C10_Witness ==
    /\ hookName = "execute_multiple_actions"
    /\ Len(hookIn.actions) >= 2
    /\ hookRes.outcome = "raised"
    /\ RaisedAt(2)
    /\ \E k \in 1..Len(hookRes.trace) : hookRes.trace[k].kind = "native" /\ hookRes.trace[k].arg[2] = 1 /\ hookRes.trace[k].ok

-----------------------------------------------------------------------------
(* Claims about the publish hooks *)

\* the places of the trace of the publish hook where the kind of request is made
PubPlaces(kind, name) == {k \in 1..Len(pubRes.trace) : pubRes.trace[k].kind = kind /\ pubRes.trace[k].name = name}

\* the current path of the session when the hook returned: the last answer
\* the host gave
PathAtEnd ==
    LET answers == {k \in PubPlaces("native", "get_current_path") : pubRes.trace[k].ok} IN
    IF answers = {} THEN NoPath
    ELSE pubRes.trace[CHOOSE k \in answers : \A l \in answers : l <= k].arg

\* C11: validate returns True without prompting when require_save_before_publish
\* is false; when it is true it returns True iff the session has a current
\* path at the end (at once, or after Yes and the save dialog), False when the
\* user declines or the session is still unsaved; an AttributeError is
\* reported and gives False, it never leaves validate
C11_ValidateTrueIffSaved ==
    pubName = "validate" =>
        /\ ~pubIn.require_save => pubRes = Return(<<>>, Bool(TRUE))
        /\ pubRes.outcome = "raised" => (pubIn.errKind = "Error" /\ pubRes.text = ApiErrorText)
        /\ (pubIn.require_save /\ pubRes.outcome = "returned") =>
              /\ pubRes.value = Bool(PathAtEnd # NoPath)
              /\ PubPlaces("dialog", "question") # {} <=> (pubIn.path = NoPath /\ pubIn.errAt # 1)
              /\ PubPlaces("engine", "show_save_dialog") # {} => pubIn.answer = "Yes"
              /\ (pubIn.path = NoPath /\ pubIn.answer # "Yes") => pubRes.value = Bool(FALSE)
              /\ PubPlaces("log", "error") # {} => (pubRes.value = Bool(FALSE) /\ PubPlaces("dialog", "critical") # {})
        /\ (pubIn.require_save /\ pubIn.errKind = "AttributeError" /\ pubIn.errAt = 1) => (pubRes.value = Bool(FALSE) /\ PubPlaces("log", "error") # {})

\* C11 witness: the unsaved session was saved through the save dialog after
\* the user answered Yes, and validate returned True
C11_Witness ==
    /\ pubName = "validate"
    /\ pubIn.require_save
    /\ pubIn.path = NoPath
    /\ PubPlaces("engine", "show_save_dialog") # {}
    /\ PathAtEnd # NoPath
    /\ pubRes.value = Bool(TRUE)

\* C12 as stated: for a session that has not been saved the validate of
\* 'Begin file versioning' does not return True, so publish is never reached
\* for an unsaved session
C12_UnsavedFailsValidation ==
    /\ (pubName = "version_validate" /\ pubIn.path = NoPath) => ~(pubRes.outcome = "returned" /\ pubRes.value = Bool(TRUE))
    /\ pubName = "publish" => pubIn.path # NoPath

\* the plugin validated an unsaved session
C12_Witness ==
    /\ pubName = "version_validate"
    /\ pubIn.path = NoPath
    /\ PubPlaces("os", "exists") # {}

C15_SaveFailuresRaise ==
    pubName = "publish" =>
        /\ \A k \in PubPlaces("native", "save_file") : \A l \in PubPlaces("native", "save_file_as") : k < l
        /\ (\E k \in PubPlaces("native", "save_file") \cup PubPlaces("native", "save_file_as") : ~pubRes.trace[k].ok) => pubRes.outcome = "raised"
        /\ (\E k \in PubPlaces("native", "save_file") : ~pubRes.trace[k].ok) => PubPlaces("native", "save_file_as") = {}
        /\ (\E k \in PubPlaces("native", "save_file_as") : ~pubRes.trace[k].ok) => PubPlaces("log", "info") = {}

\* what publish does: both saves are requested, once each and in that
\* order, whatever they report, and the version number is logged
C15_SavesInOrderWhateverReported ==
    pubName = "publish" =>
        /\ pubRes.outcome = "returned"
        /\ Cardinality(PubPlaces("native", "save_file")) = 1 /\ Cardinality(PubPlaces("native", "save_file_as")) = 1
        /\ \A k \in PubPlaces("native", "save_file") : \A l \in PubPlaces("native", "save_file_as") : k < l
        /\ PubPlaces("log", "info") # {}

\* publish ran and the native save reported failure
C15_Witness ==
    /\ pubName = "publish"
    /\ \E k \in PubPlaces("native", "save_file") : ~pubRes.trace[k].ok

-----------------------------------------------------------------------------
(* Claims about the style sheet *)

\* the style sheet with every palette(<brush>) of a listed brush the palette
\* provides replaced by the colour name of the brush, in one pass from the left
RECURSIVE Substituted(_, _)
Substituted(str, palette) ==
    IF str = <<>> THEN <<>>
    ELSE IF Len(str) >= 3 /\ str[1] = "palette(" /\ str[3] = ")" /\ str[2] \in ListedBrushes \cap palette THEN <<ColorName(str[2])>> \o Substituted(SubSeq(str, 4, Len(str)), palette)
    ELSE <<Head(str)>> \o Substituted(Tail(str), palette)

\* palette(<brush>) occurs in the style sheet
HasToken(str, brush) == \E i \in 1..(Len(str) - 2) : SubSeq(str, i, i + 2) = Token(brush)

\* C14: the result is the style sheet with every palette(<brush>) of a listed
\* brush the palette provides replaced by the colour name of the brush and
\* everything else unchanged; no such token is left; the listed brushes the
\* palette does not provide are logged and skipped; resolving the result
\* again returns it unchanged
C14_ResolvesEveryToken ==
    styleRes # <<>> =>
        /\ styleRes[1].sheet = Substituted(styleSheet, appPalette)
        /\ \A b \in ListedBrushes \cap appPalette : ~HasToken(styleRes[1].sheet, b)
        /\ {styleRes[1].logged[k] : k \in 1..Len(styleRes[1].logged)} = ListedBrushes \ appPalette
        /\ \A b \in ListedBrushes \ appPalette : HasToken(styleSheet, b) <=> HasToken(styleRes[1].sheet, b)
        /\ Len(styleRes) = 2 => styleRes[2].sheet = styleRes[1].sheet

\* C14 witness: a style sheet with a token of a brush the palette provides
\* and a token of the brush it lacks was resolved, and the result resolved
\* again: the first token is replaced and the second kept
C14_Witness ==
    /\ Len(styleRes) = 2
    /\ styleSheet = Token("dark") \o Token("link")
    /\ appPalette = ListedBrushes \ {"link"}
    /\ styleRes[1].logged = <<"link">>
    /\ styleRes[2].sheet = <<"#111111">> \o Token("link")

=============================================================================
